---- MODULE Spec2Model ----
(***************************************************************************)
(* A model of cogent3/draw/drawable.py: the layout-domain arithmetic       *)
(* (get_domain, AnnotatedDrawable._build_*_fig), the Drawable trace        *)
(* container and the make_shape shape builders.                            *)
(*                                                                         *)
(* Python floats are modelled as exact rationals <<numerator, denominator>>*)
(* in lowest terms with a positive denominator, so every equality below is *)
(* an equality of real numbers, not of IEEE-754 bit patterns.              *)
(***************************************************************************)
EXTENDS Integers, Sequences, FiniteSets, TLC

VARIABLES call, ret, traces, added, ad

vars == <<call, ret, traces, added, ad>>

\* the value of ret while a call has not returned
NoRet == [kind |-> "pending"]

(***************************************************************************)
(* Bounds of the model                                                     *)
(***************************************************************************)
\* largest number of grid elements handed to get_domain
MaxTotal == 4

(***************************************************************************)
(* Rational arithmetic                                                     *)
(***************************************************************************)
Abs(n) == IF n < 0 THEN -n ELSE n

RECURSIVE GCD(_, _)
GCD(a, b) == IF b = 0 THEN a ELSE GCD(b, a % b)

\* the rational n/d (d # 0) in lowest terms with a positive denominator
R(n, d) ==
    LET g == GCD(Abs(n), Abs(d))
        s == IF d < 0 THEN -1 ELSE 1
    IN  <<(s * n) \div g, (s * d) \div g>>

I(n) == <<n, 1>>
RAdd(p, q) == R(p[1] * q[2] + q[1] * p[2], p[2] * q[2])
RSub(p, q) == R(p[1] * q[2] - q[1] * p[2], p[2] * q[2])
RMul(p, q) == R(p[1] * q[1], p[2] * q[2])
RDiv(p, q) == R(p[1] * q[2], p[2] * q[1])
RLt(p, q) == p[1] * q[2] < q[1] * p[2]
RLe(p, q) == p[1] * q[2] <= q[1] * p[2]
RMin(p, q) == IF RLt(q, p) THEN q ELSE p
RMax(p, q) == IF RLt(p, q) THEN q ELSE p
RAbs(p) == <<Abs(p[1]), p[2]>>
\* Python's int() on a float: truncation toward zero
RInt(p) == IF p[1] >= 0 THEN p[1] \div p[2] ELSE -((-p[1]) \div p[2])

(***************************************************************************)
(* get_domain                                                              *)
(***************************************************************************)
\* the outcome of a call: a returned value or a raised exception
Ok(v) == [kind |-> "ok", value |-> v]
Raise(e) == [kind |-> "raise", exc |-> e]

\* domains[k] with the separation left uncapped by per_element / 10
domain_of_uncapped(total, k, space) ==
    LET per_element == R(1, total)
        sp == RDiv(space, I(2))
    IN  <<RAdd(RMul(per_element, I(k)), sp),
          RSub(RMul(per_element, I(k + 1)), sp)>>

\* domains[k] of get_domain, for 0 <= k < total
domain_of(total, k, space) ==
    LET per_element == R(1, total)
        sp == RMin(RDiv(space, I(2)), RDiv(per_element, I(10)))
    IN  <<RAdd(RMul(per_element, I(k)), sp),
          RSub(RMul(per_element, I(k + 1)), sp)>>

\* the element whose domain a y axis receives
flip_y_mut(total, element) == element

flip_y(total, element) == total - element - 1

\* the range check of get_domain
index_check(total, element) == element > total - 1

get_domain(total, element, is_y, space) ==
    IF total = 1 THEN Ok(<<I(0), I(1)>>)
    ELSE IF index_check(total, element)
         THEN Raise("ValueError")
    ELSE IF total = 0 THEN Raise("ZeroDivisionError")
    ELSE LET e == IF is_y THEN flip_y(total, element) ELSE element
             \* list indexing: a negative index counts from the end
             k == IF e < 0 THEN e + total ELSE e
         IN  IF k < 0 \/ k > total - 1 THEN Raise("IndexError")
             ELSE Ok(domain_of(total, k, space))

\* the space arguments tried: negative, zero, the default 0.01, and values
\* that the per_element / 10 cap cuts down
Spaces == {R(-1, 100), I(0), R(1, 100), R(1, 20), R(1, 2), I(1)}

DomainCalls ==
    [op : {"get_domain"}, total : 0..MaxTotal, element : (-1)..(MaxTotal + 1),
     is_y : BOOLEAN, space : Spaces]

NoDrawable == [kind |-> "none"]

InitDomain ==
    /\ call \in DomainCalls
    /\ ret = NoRet
    /\ traces = <<>>
    /\ added = <<>>
    /\ ad = NoDrawable

CallGetDomain ==
    /\ call.op = "get_domain"
    /\ ret = NoRet
    /\ ret' = get_domain(call.total, call.element, call.is_y, call.space)
    /\ UNCHANGED <<call, traces, added, ad>>

NextDomain == CallGetDomain

SpecDomain == InitDomain /\ [][NextDomain]_vars

\* a get_domain call has returned or raised
DomainDone == call.op = "get_domain" /\ ret # NoRet

\* the element index of the call is one of 0..total-1
ElementInRange == call.element \in 0..(call.total - 1)

\* C1: for every total >= 1, an element index greater than total - 1 makes
\* get_domain raise ValueError instead of returning a domain.
C1_OutOfRangeRaises ==
    (DomainDone /\ call.total >= 1 /\ call.element > call.total - 1)
        => ret = Raise("ValueError")

\* the separation get_domain leaves at each end of a domain
HalfSpace(total, space) ==
    RMin(RDiv(space, I(2)), RDiv(R(1, total), I(10)))

\* C4: for total >= 2, an element in range and space >= 0, the domain
\* (lo, hi) has 0 <= lo < hi <= 1 and width 1/total - 2s, every other element
\* of the axis has a domain of the same width that does not overlap it, and
\* adjacent domains are exactly 2s apart, with s = min(space/2, 1/(10 total)).
C4_EvenNormalizedDomains ==
    (DomainDone /\ call.total >= 2 /\ ElementInRange /\ RLe(I(0), call.space))
        => /\ ret.kind = "ok"
           /\ LET lo == ret.value[1]
                  hi == ret.value[2]
                  s2 == RMul(I(2), HalfSpace(call.total, call.space))
                  width == RSub(R(1, call.total), s2)
              IN  /\ RLe(I(0), lo) /\ RLt(lo, hi) /\ RLe(hi, I(1))
                  /\ RSub(hi, lo) = width
                  /\ \A e2 \in (0..(call.total - 1)) \ {call.element} :
                        LET d2 == get_domain(call.total, e2, call.is_y, call.space)
                            lo2 == d2.value[1]
                            hi2 == d2.value[2]
                        IN  /\ d2.kind = "ok"
                            /\ RSub(hi2, lo2) = width
                            /\ RLe(hi, lo2) \/ RLe(hi2, lo)
                            /\ Abs(e2 - call.element) = 1
                                 => RMax(RSub(lo2, hi), RSub(lo, hi2)) = s2

\* C4 witness: a middle element of a y axis of three or more elements, with a
\* space that the per_element / 10 cap cuts down
C4_Witness ==
    /\ DomainDone /\ ret.kind = "ok"
    /\ call.total >= 3 /\ call.element = 1 /\ call.is_y
    /\ call.space = R(1, 2)
    /\ ret.value = <<R(11, 30), R(19, 30)>>

\* C5: for total >= 1 and an element in range, the y-axis domain of element
\* is the x-axis domain of total - 1 - element, and element 0 of a y axis
\* gets the topmost domain of the axis.
C5_YReversed ==
    (DomainDone /\ call.total >= 1 /\ ElementInRange /\ call.is_y)
        => /\ ret.kind = "ok"
           /\ ret = get_domain(call.total, call.total - 1 - call.element,
                               FALSE, call.space)
           /\ call.element = 0 =>
                \A e2 \in 0..(call.total - 1) :
                    RLe(get_domain(call.total, e2, TRUE, call.space).value[2],
                        ret.value[2])

\* C5 witness: element 0 of a y axis of several elements received the top
\* domain, the one that ends at 1 - s
C5_Witness ==
    /\ DomainDone /\ ret.kind = "ok"
    /\ call.total = 3 /\ call.element = 0 /\ call.is_y
    /\ call.space = R(1, 100)
    /\ ret.value = <<R(403, 600), R(199, 200)>>

(***************************************************************************)
(* Shapes: Rectangle, Diamond, Arrow, Point                                *)
(***************************************************************************)
\* largest genomic position of a span end
MaxPos == 3
\* largest number of spans of a feature
MaxSpans == 2

\* a None entry of a coordinate list (numpy turns it into nan)
NoneC == <<0, 0>>

\* the defaults of the shape constructors: y = 0, height = 0.25,
\* arrow_head_w = 0.1
default_y == I(0)
default_height == R(1, 4)
default_arrow_head_w == R(1, 10)

Half(h) == RDiv(h, I(2))

\* abs(span[0] - span[1]) and min(span[0], span[1])
span_width(span) == I(Abs(span[1] - span[2]))
span_x(span) == I(IF span[2] < span[1] THEN span[2] ELSE span[1])

\* the five corners of the box of one span
box_xs(span) ==
    LET x_coord == span_x(span)
        far == RAdd(x_coord, span_width(span))
    IN  <<x_coord, x_coord, far, far, x_coord>>

box_ys(y, height) == <<y, RAdd(y, height), RAdd(y, height), y, y>>

\* the connecting line segment from the end of span a to the start of span b
link_xs(a, b) == <<NoneC, I(a[2]), I(b[1]), NoneC>>
link_ys(level) == <<NoneC, level, level, NoneC>>

\* Rectangle.__init__: the xs of coords[1..n]
RECURSIVE rectangle_xs(_, _)
rectangle_xs(coords, n) ==
    IF n = 1 THEN box_xs(coords[1])
    ELSE rectangle_xs(coords, n - 1)
            \o link_xs(coords[n - 1], coords[n]) \o box_xs(coords[n])

RECURSIVE rectangle_ys(_, _, _)
rectangle_ys(n, y, height) ==
    IF n = 1 THEN box_ys(y, height)
    ELSE rectangle_ys(n - 1, y, height)
            \o link_ys(RAdd(y, Half(height))) \o box_ys(y, height)

\* the attributes Shape.__init__ keeps, with x and y filled by the subclass
Shape(klass, mode, xs, ys, kw) ==
    [klass |-> klass, mode |-> mode, x |-> xs, y |-> ys,
     name |-> kw.name, text |-> kw.text, legendgroup |-> kw.legendgroup,
     showlegend |-> TRUE, fillcolor |-> kw.fillcolor]

Rectangle(coords, y, height, kw) ==
    Shape("Rectangle", "lines", rectangle_xs(coords, Len(coords)),
          rectangle_ys(Len(coords), y, height), kw)

\* the corners of the diamond of one span
diamond_one_xs(span) ==
    LET x_coord == span_x(span)
        mid == RAdd(x_coord, Half(span_width(span)))
    IN  <<x_coord, mid, RAdd(x_coord, span_width(span)), mid, x_coord>>

diamond_one_ys(y, height) ==
    LET hh == Half(height)
    IN  <<y, RAdd(y, hh), y, RSub(y, hh), y>>

RECURSIVE diamond_xs(_, _)
diamond_xs(coords, n) ==
    IF n = 1 THEN diamond_one_xs(coords[1])
    ELSE diamond_xs(coords, n - 1)
            \o link_xs(coords[n - 1], coords[n]) \o diamond_one_xs(coords[n])

RECURSIVE diamond_ys(_, _, _)
diamond_ys(n, y, height) ==
    IF n = 1 THEN diamond_one_ys(y, height)
    ELSE diamond_ys(n - 1, y, height)
            \o link_ys(y) \o diamond_one_ys(y, height)

Diamond(coords, y, height, kw) ==
    Shape("Diamond", "lines", diamond_xs(coords, Len(coords)),
          diamond_ys(Len(coords), y, height), kw)

\* Arrow.__init__: the boxes and links of all spans but the last
RECURSIVE arrow_body_xs(_, _)
arrow_body_xs(coords, n) ==
    IF n = 0 THEN <<>>
    ELSE arrow_body_xs(coords, n - 1)
            \o box_xs(coords[n]) \o link_xs(coords[n], coords[n + 1])

RECURSIVE arrow_body_ys(_, _, _)
arrow_body_ys(n, y, height) ==
    IF n = 0 THEN <<>>
    ELSE arrow_body_ys(n - 1, y, height)
            \o box_ys(y, height) \o link_ys(RAdd(y, Half(height)))

\* arrow_x and arrow_y: the head on the last span, pointing right
arrow_x(span, arrow_head_w) ==
    LET x_coord == span_x(span)
        width == span_width(span)
        hw == RMul(RMul(width, arrow_head_w), I(2))
        far == RAdd(x_coord, width)
        neck == RSub(far, hw)
    IN  <<x_coord, neck, neck, far, neck, neck, x_coord, x_coord>>

arrow_y(y, height, arrow_head_w) ==
    LET hh == RMul(RMul(height, arrow_head_w), I(2))
        top == RAdd(y, height)
    IN  <<y, y, RSub(y, hh), RAdd(y, Half(height)), RAdd(top, hh), top, top, y>>

RECURSIVE seq_max(_, _)
seq_max(s, n) == IF n = 1 THEN s[1] ELSE RMax(seq_max(s, n - 1), s[n])

RECURSIVE seq_min(_, _)
seq_min(s, n) == IF n = 1 THEN s[1] ELSE RMin(seq_min(s, n - 1), s[n])

\* numpy.flip
flip(s) == [i \in 1..Len(s) |-> s[Len(s) + 1 - i]]

\* the head drawn as for reverse = False whatever the flag
arrow_head_xs_forward(span, arrow_head_w, reverse) == arrow_x(span, arrow_head_w)

\* the xs of the head: arrow_x, or its mirror image when reverse
arrow_head_xs(span, arrow_head_w, reverse) ==
    LET ax == arrow_x(span, arrow_head_w)
        hi == seq_max(ax, Len(ax))
        lo == seq_min(ax, Len(ax))
    IN  IF ~reverse THEN ax
        ELSE flip([i \in 1..Len(ax) |-> RAdd(RSub(hi, ax[i]), lo)])

arrow_head_ys(y, height, arrow_head_w, reverse) ==
    IF ~reverse THEN arrow_y(y, height, arrow_head_w)
    ELSE flip(arrow_y(y, height, arrow_head_w))

Arrow(coords, y, height, arrow_head_w, reverse, kw) ==
    LET n == Len(coords)
    IN  Shape("Arrow", "lines",
              arrow_body_xs(coords, n - 1)
                  \o arrow_head_xs(coords[n], arrow_head_w, reverse),
              arrow_body_ys(n - 1, y, height)
                  \o arrow_head_ys(y, height, arrow_head_w, reverse),
              kw)

Point(x, y, size, symbol, kw) ==
    Shape("Point", "markers", <<x>>, <<y>>, kw)
        @@ [size |-> size, symbol |-> symbol]

(***************************************************************************)
(* make_shape (_MakeShape.__call__)                                        *)
(***************************************************************************)
\* the feature type names tried, in several spellings
TypeNames ==
    {"cds", "CDS", "exon", "transcript", "gene", "Gene", "repeat", "snp",
     "SNV", "variation", "intron"}

\* str.lower on the type names
lower(t) ==
    CASE t = "CDS" -> "cds"
      [] t = "Gene" -> "gene"
      [] t = "SNV" -> "snv"
      [] OTHER -> t

\* _MakeShape._shapes.get(key, Rectangle)
shape_class(key) ==
    CASE key \in {"cds", "exon", "transcript", "gene"} -> "Arrow"
      [] key = "repeat" -> "Rectangle"
      [] key \in {"snp", "snv"} -> "Point"
      [] key = "variation" -> "Diamond"
      [] OTHER -> "Rectangle"

\* _MakeShape._colors.get(key, None)
shape_color(key) ==
    CASE key = "cds" -> "rgba(0,0,150,0.5)"
      [] key = "exon" -> "rgba(0,0,100,0.5)"
      [] key = "gene" -> "rgba(0,0,150,0.5)"
      [] key = "transcript" -> "rgba(0,0,200,0.5)"
      [] key \in {"snp", "snv"} -> "rgba(200,0,0,0.5)"
      [] OTHER -> "None"

\* a coords argument: None, or a list of (start, end) spans
NoCoords == [none |-> TRUE, spans |-> <<>>]
SomeCoords(spans) == [none |-> FALSE, spans |-> spans]

\* evaluating coords[0][0] > coords[-1][1]
reverse_of(coords) ==
    IF coords.none THEN Raise("TypeError")
    ELSE IF coords.spans = <<>> THEN Raise("IndexError")
    ELSE Ok(coords.spans[1][1] > coords.spans[Len(coords.spans)][2])

\* the shape built once type name, text, coords and reverse are known
build_shape(type_, name, spans, reverse) ==
    LET key == lower(type_)
        klass == shape_class(key)
        kw == [name |-> type_, text |-> name, legendgroup |-> type_,
               fillcolor |-> shape_color(key)]
        first == spans[1]
        last == spans[Len(spans)]
    IN  CASE klass = "Arrow" ->
               Arrow(spans, default_y, default_height, default_arrow_head_w,
                     reverse, kw)
          [] klass = "Rectangle" ->
               Rectangle(spans, default_y, default_height, kw)
          [] klass = "Diamond" ->
               Diamond(spans, default_y, default_height, kw)
          [] klass = "Point" ->
               Point(I(IF last[2] < first[1] THEN last[2] ELSE first[1]),
                     I(1), 14, "square", kw)

\* kwargs with reverse left in for every class
shape_kwargs_kept(klass) == {"reverse"}

\* kwargs.update(dict(reverse=reverse)), then kwargs.pop("reverse") unless
\* the class is Arrow: the names of the keyword arguments handed on
shape_kwargs(klass) == IF klass # "Arrow" THEN {} ELSE {"reverse"}

\* klass(...) or Point(...) with **kwargs: only Arrow.__init__ takes reverse
construct(type_, name, spans, reverse) ==
    LET klass == shape_class(lower(type_))
    IN  IF klass # "Arrow" /\ "reverse" \in shape_kwargs(klass)
        THEN Raise("TypeError")
        ELSE Ok(build_shape(type_, name, spans, reverse))

\* make_shape(type_, name, coords) with no further keyword arguments.
\* f.annot: type_ is an annotatable object, whose map gives useful, coords
\* and reverse and whose type and name are f.type_ and f.name; otherwise
\* f.type_, f.name and f.coords are the arguments themselves.
make_shape(f) ==
    IF f.annot
    THEN IF ~f.useful THEN Ok([klass |-> "None"])
         ELSE construct(f.type_, f.name, f.coords.spans, f.reverse)
    ELSE LET rev == reverse_of(f.coords)
         IN  IF rev.kind = "raise" THEN rev
             ELSE IF f.coords.none
                  THEN Raise("Exception: No coordinates defined")
             ELSE construct(f.type_, f.name, f.coords.spans, rev.value)

Spans == (0..MaxPos) \X (0..MaxPos)

SpanLists == UNION {[1..n -> Spans] : n \in 1..MaxSpans}

ShapeCalls ==
    [op : {"make_shape"}, annot : {FALSE}, type_ : TypeNames, name : {"f1"},
     coords : {NoCoords, SomeCoords(<<>>)} \cup {SomeCoords(c) : c \in SpanLists},
     useful : {TRUE}, reverse : {FALSE}]
    \cup
    [op : {"make_shape"}, annot : {TRUE}, type_ : TypeNames, name : {"f1"},
     coords : {SomeCoords(c) : c \in SpanLists},
     useful : BOOLEAN, reverse : BOOLEAN]

InitShape ==
    /\ call \in ShapeCalls
    /\ ret = NoRet
    /\ traces = <<>>
    /\ added = <<>>
    /\ ad = NoDrawable

CallMakeShape ==
    /\ call.op = "make_shape"
    /\ ret = NoRet
    /\ ret' = make_shape(call)
    /\ UNCHANGED <<call, traces, added, ad>>

NextShape == CallMakeShape

SpecShape == InitShape /\ [][NextShape]_vars

\* C2: make_shape called with a feature type name and coords = None raises
\* the 'No coordinates defined' exception and builds no shape.
C2_NoCoordinatesError ==
    (call.op = "make_shape" /\ ret # NoRet /\ ~call.annot /\ call.coords.none)
        => ret = Raise("Exception: No coordinates defined")

(***************************************************************************)
(* Drawable: the trace container                                           *)
(***************************************************************************)
\* largest number of traces ever given to one Drawable
MaxTraces == 4
\* largest number of names in one remove_traces call
MaxNames == 2

\* trace names; two traces may carry the same name
TraceNames == {"a", "b"}

\* a trace: its name attribute and the identity of the object
Trace(name, id) == [name |-> name, id |-> id]

\* the {} that stands in for the data of a figure without traces
EmptyTrace == [name |-> "", id |-> 0]

\* Python's None where a trace could have been returned
NoneValue == [name |-> "None", id |-> 0]

\* Drawable.get_trace_titles
get_trace_titles(trs) == [i \in 1..Len(trs) |-> trs[i].name]

\* list.index: the first position of v in s, 0 standing for ValueError
RECURSIVE index_from(_, _, _)
index_from(s, v, i) ==
    IF i > Len(s) THEN 0
    ELSE IF s[i] = v THEN i
    ELSE index_from(s, v, i + 1)

index(s, v) == index_from(s, v, 1)

\* list.pop(i): the list without its i-th element
list_pop(s, i) == [j \in 1..(Len(s) - 1) |-> IF j < i THEN s[j] ELSE s[j + 1]]

\* Drawable.pop_trace: the traces left and the value returned
pop_trace(trs, title) ==
    LET i == index(get_trace_titles(trs), title)
    IN  IF i = 0 THEN [traces |-> trs, ret |-> Ok(NoneValue)]
        ELSE [traces |-> list_pop(trs, i), ret |-> Ok(trs[i])]

\* a names argument: one str, or a list of str
OneName(n) == [str |-> TRUE, s |-> n, items |-> <<>>]
NameList(ns) == [str |-> FALSE, s |-> "", items |-> ns]

\* names if type(names) != str else [names]
names_list(names) == IF names.str THEN <<names.s>> ELSE names.items

\* the loop of remove_traces over names[k..]
RECURSIVE pop_all(_, _, _)
pop_all(trs, ns, k) ==
    IF k > Len(ns) THEN trs
    ELSE pop_all(pop_trace(trs, ns[k]).traces, ns, k + 1)

\* Drawable.remove_traces on a plain Drawable, which has no _build_fig
remove_traces(trs, names) ==
    IF trs = <<>> THEN [traces |-> trs, ret |-> Raise("AttributeError")]
    ELSE [traces |-> pop_all(trs, names_list(names), 1), ret |-> Ok(NoneValue)]

\* a trace put at the front of the list
list_prepend(s, t) == <<t>> \o s

\* list.append
list_append(s, t) == Append(s, t)

\* Drawable.figure of a plain Drawable built without titles
figure(trs) ==
    [data |-> IF trs # <<>> THEN trs ELSE <<EmptyTrace>>,
     layout |-> [xaxis |-> [title |-> "None"], yaxis |-> [title |-> "None"]]]

\* Drawable(traces=...): the lists a Drawable may be built with
InitialTraces ==
    UNION {{[i \in 1..n |-> Trace(f[i], i)] : f \in [1..n -> TraceNames]}
             : n \in 0..2}

InitDrawable ==
    /\ traces \in InitialTraces
    /\ added = traces
    /\ call = [op |-> "Drawable", before |-> <<>>]
    /\ ret = NoRet
    /\ ad = NoDrawable

AddTrace ==
    /\ Len(added) < MaxTraces
    /\ \E n \in TraceNames :
        LET t == Trace(n, Len(added) + 1)
        IN  /\ traces' = list_append(traces, t)
            /\ added' = Append(added, t)
            /\ call' = [op |-> "add_trace", before |-> traces, trace |-> t]
            /\ ret' = Ok(NoneValue)
    /\ UNCHANGED ad

PopTrace ==
    /\ \E n \in TraceNames :
        LET r == pop_trace(traces, n)
        IN  /\ traces' = r.traces
            /\ ret' = r.ret
            /\ call' = [op |-> "pop_trace", before |-> traces, title |-> n]
    /\ UNCHANGED <<added, ad>>

NameArgs ==
    {OneName(n) : n \in TraceNames}
    \cup {NameList(ns) : ns \in UNION {[1..k -> TraceNames] : k \in 0..MaxNames}}

RemoveTraces ==
    /\ \E names \in NameArgs :
        LET r == remove_traces(traces, names)
        IN  /\ traces' = r.traces
            /\ ret' = r.ret
            /\ call' = [op |-> "remove_traces", before |-> traces,
                        names |-> names]
    /\ UNCHANGED <<added, ad>>

Figure ==
    /\ ret' = Ok(figure(traces))
    /\ call' = [op |-> "figure", before |-> traces]
    /\ UNCHANGED <<traces, added, ad>>

Next == AddTrace \/ PopTrace \/ RemoveTraces \/ Figure

Spec == InitDrawable /\ [][Next]_vars

\* s without its i-th element
Without(s, i) == [j \in 1..(Len(s) - 1) |-> IF j < i THEN s[j] ELSE s[j + 1]]

\* the position of trace t in the order of addition
AddedAt(t) == CHOOSE i \in 1..Len(added) : added[i] = t

\* C3: the traces held are in the order they were added; add_trace puts its
\* trace last, a pop_trace that returns a trace takes exactly that one out and
\* keeps the others in place; and with at least one trace held the data of
\* the figure is exactly the list of traces held.
C3_TraceOrderIsDisplayOrder ==
    /\ \A i, j \in 1..Len(traces) :
         i < j => AddedAt(traces[i]) < AddedAt(traces[j])
    /\ call.op = "add_trace" => traces = call.before \o <<call.trace>>
    /\ (call.op = "pop_trace" /\ ret # Ok(NoneValue)) =>
         \E i \in 1..Len(call.before) :
            /\ call.before[i] = ret.value
            /\ traces = Without(call.before, i)
    /\ (call.op = "figure" /\ Len(traces) >= 1) => ret.value.data = traces

\* C3 witness: a figure taken after traces were added and one in the middle
\* was popped shows the remaining traces in the order of addition
C3_Witness ==
    /\ call.op = "figure"
    /\ Len(added) >= 3
    /\ Len(traces) = 2
    /\ traces[1] = added[1] /\ traces[2] = added[3]
    /\ ret.value.data = traces

\* the names of a names argument, as a set
NameSet(names) == {names_list(names)[i] : i \in 1..Len(names_list(names))}

\* s restricted to the traces whose name is not in ns
RECURSIVE Keep(_, _)
Keep(s, ns) ==
    IF s = <<>> THEN <<>>
    ELSE IF s[1].name \in ns THEN Keep(Tail(s), ns)
    ELSE <<s[1]>> \o Keep(Tail(s), ns)

\* C10: remove_traces(names) completes, leaves no trace whose name is one of
\* names, and keeps every other trace in its original relative order.
C10_RemoveTracesByName ==
    call.op = "remove_traces" =>
        /\ ret.kind = "ok"
        /\ \A i \in 1..Len(traces) : traces[i].name \notin NameSet(call.names)
        /\ traces = Keep(call.before, NameSet(call.names))

(***************************************************************************)
(* Shape.T, Shape.shift, Shape.as_trace: shapes as the traces of a track   *)
(***************************************************************************)
\* Shape.T: x and y swapped
T(shape) == [shape EXCEPT !.x = shape.y, !.y = shape.x]

\* Shape.as_trace; xaxis and yaxis are not set by it ("" is unset)
as_trace(shape) ==
    [name |-> shape.name, x |-> shape.x, y |-> shape.y,
     legendgroup |-> shape.legendgroup, showlegend |-> shape.showlegend,
     xaxis |-> "", yaxis |-> ""]

(***************************************************************************)
(* AnnotatedDrawable                                                       *)
(***************************************************************************)
\* the highest row of a track on which an annotation shape is drawn
MaxLevel == 9
\* largest number of traces in one track
MaxTrackTraces == 2

\* left_track=None, bottom_track=None
NoTrack == [present |-> FALSE, traces |-> <<>>]
Track(trs) == [present |-> TRUE, traces |-> trs]

\* xrange=None, yrange=None
NoRange == <<NoneC, NoneC>>

\* x[indices]: the entries of a coordinate list that are not None
Valid(s) == SelectSeq(s, LAMBDA c : c # NoneC)

\* the loops on lines 427-435 and 441-451: max(x[indices].max(), max_x)
\* over the traces, from max_x = 0; across is "x" or "y"
RECURSIVE track_max(_, _, _)
track_max(trs, across, n) ==
    IF n = 0 THEN I(0)
    ELSE LET v == Valid(IF across = "x" THEN trs[n].x ELSE trs[n].y)
         IN  RMax(seq_max(v, Len(v)), track_max(trs, across, n - 1))

\* int(max_x) + 1
track_extent(trs, across) == RInt(track_max(trs, across, Len(trs))) + 1

\* the seen_types loops: traces trs[k..] with showlegend switched off when
\* their legendgroup was seen before, and xaxis / yaxis set when given
RECURSIVE place_track(_, _, _, _, _)
place_track(trs, k, seen, xaxis, yaxis) ==
    IF k > Len(trs) THEN [traces |-> <<>>, seen |-> seen]
    ELSE LET t == trs[k]
             t2 == [t EXCEPT
                     !.xaxis = IF xaxis = "" THEN @ ELSE xaxis,
                     !.yaxis = IF yaxis = "" THEN @ ELSE yaxis,
                     !.showlegend = IF t.legendgroup \in seen THEN FALSE ELSE @]
             rest == place_track(trs, k + 1, seen \cup {t.legendgroup},
                                 xaxis, yaxis)
         IN  [traces |-> <<t2>> \o rest.traces, seen |-> rest.seen]

\* one axis of a layout
Axis(anchor, domain, range, showticklabels) ==
    [anchor |-> anchor, domain |-> domain, range |-> range,
     showticklabels |-> showticklabels]

\* the domains the layouts start from
track_base == <<I(0), R(99, 1000)>>
main_base == <<R(109, 1000), I(1)>>
full_base == <<I(0), I(1)>>
track_base_2x1 == <<I(0), R(985, 10000)>>
main_base_2x1 == <<R(1135, 10000), I(1)>>

\* space = 0.01
space_2x2 == R(1, 100)

\* every track drawn at the base size
track_domain_unscaled(extent, min_range, base) == base

\* left_prop * xaxis_domain[1] and bottom_prop * yaxis_domain[1]: the track's
\* domain, widened by extent / min_range
track_domain(extent, min_range, base) ==
    <<base[1], RMul(R(extent, min_range), base[2])>>

\* the main plot's domain beside a track that ends at track_end
main_domain(track_end) == <<RAdd(track_end, space_2x2), I(1)>>

\* the track-aligned axis left on the domain the layout started from
aligned_domain_stale(track_end) == main_base

\* the domain of the axis a track shares with the main plot
aligned_domain(track_end) == <<RAdd(track_end, space_2x2), I(1)>>

Min(a, b) == IF b < a THEN b ELSE a

\* the layout of _build_2x2_fig for the extents of the two tracks
layout_2x2(left_extent, bottom_extent, xrange, yrange) ==
    LET min_range == Min(left_extent, bottom_extent)
        xaxis_domain == track_domain(left_extent, min_range, track_base)
        yaxis_domain == track_domain(bottom_extent, min_range, track_base)
    IN  [xaxis |-> Axis("y", xaxis_domain, <<I(0), I(left_extent)>>, FALSE),
         xaxis2 |-> Axis("y2", main_domain(xaxis_domain[2]), xrange, FALSE),
         xaxis3 |-> Axis("y3", aligned_domain(xaxis_domain[2]), xrange, TRUE),
         yaxis |-> Axis("x", aligned_domain(yaxis_domain[2]), yrange, TRUE),
         yaxis2 |-> Axis("x2", main_domain(yaxis_domain[2]), yrange, FALSE),
         yaxis3 |-> Axis("x3", yaxis_domain, <<I(0), I(bottom_extent)>>, FALSE)]

\* the bottom-track layout with the 0.109 / 0.099 split of the other layouts
layout_2x1_as_1x2(bottom_extent, xrange, yrange) ==
    [xaxis |-> Axis("y2", full_base, xrange, TRUE),
     yaxis |-> Axis("free", main_base, yrange, TRUE),
     yaxis2 |-> Axis("x", track_base, <<I(0), I(bottom_extent)>>, FALSE)]

\* the layout of _build_2x1_fig: bottom track only
layout_2x1(bottom_extent, xrange, yrange) ==
    [xaxis |-> Axis("y2", full_base, xrange, TRUE),
     yaxis |-> Axis("free", main_base_2x1, yrange, TRUE),
     yaxis2 |-> Axis("x", track_base_2x1, <<I(0), I(bottom_extent)>>, FALSE)]

\* the layout of _build_1x2_fig: left track only
layout_1x2(left_extent, xrange, yrange) ==
    [xaxis |-> Axis("y", track_base, <<I(0), I(left_extent)>>, FALSE),
     xaxis2 |-> Axis("free", main_base, xrange, TRUE),
     yaxis |-> Axis("x", full_base, yrange, TRUE)]

\* the layout of the core's own figure, as _build_fig leaves it
layout_core ==
    [xaxis |-> Axis("", <<NoneC, NoneC>>, NoRange, TRUE),
     yaxis |-> Axis("", <<NoneC, NoneC>>, NoRange, TRUE)]

\* Shape.shift on a shape whose x and y are numpy arrays: None stays None
shift(shape, dx, dy) ==
    [shape EXCEPT
       !.x = [i \in 1..Len(shape.x) |->
                IF shape.x[i] = NoneC THEN NoneC ELSE RAdd(shape.x[i], dx)],
       !.y = [i \in 1..Len(shape.y) |->
                IF shape.y[i] = NoneC THEN NoneC ELSE RAdd(shape.y[i], dy)]]

\* the feature drawn on the tracks: two spans, so its lists hold None
TrackSpans == <<<<0, 1>>, <<2, 3>>>>

\* the feature types drawn on the tracks: an Arrow and a Rectangle
TrackTypes == {"gene", "repeat"}

\* the rows of a track on which shapes are drawn
Levels == {0, 1, MaxLevel}

\* a trace of a bottom track: the shape of a feature moved up to its row
BottomTrace(type_, level) ==
    as_trace(shift(build_shape(type_, "f1", TrackSpans, FALSE), I(0), I(level)))

\* a trace of a left track: the same shape, transposed
LeftTrace(type_, level) ==
    as_trace(T(shift(build_shape(type_, "f1", TrackSpans, FALSE), I(0), I(level))))

\* the shapes of a track by type and row, filled from the lowest row up
TrackPlans ==
    UNION {{p \in [1..n -> TrackTypes \X Levels] :
               \A i \in 1..(n - 1) : p[i][2] <= p[i + 1][2]}
             : n \in 1..MaxTrackTraces}

LeftTracks ==
    {NoTrack} \cup
    {Track([i \in 1..Len(p) |-> LeftTrace(p[i][1], p[i][2])]) : p \in TrackPlans}

BottomTracks ==
    {NoTrack} \cup
    {Track([i \in 1..Len(p) |-> BottomTrace(p[i][1], p[i][2])]) : p \in TrackPlans}

\* the traces of the main plot
CoreTraces ==
    <<[name |-> "core", x |-> <<I(0), I(3)>>, y |-> <<I(0), I(3)>>,
       legendgroup |-> "core", showlegend |-> TRUE, xaxis |-> "", yaxis |-> ""]>>

\* the core Drawable: built with its traces, or a subclass whose _build_fig
\* makes them when its figure is first asked for
Cores ==
    {[traces |-> CoreTraces, builds |-> FALSE, template |-> <<>>],
     [traces |-> <<>>, builds |-> TRUE, template |-> CoreTraces]}

Ranges == {[x |-> NoRange, y |-> NoRange],
           [x |-> <<I(0), I(3)>>, y |-> <<I(0), I(5)>>]}

\* Drawable.figure of the core: its traces, made first when it can make them
core_data(core) ==
    IF core.traces = <<>> /\ core.builds THEN core.template ELSE core.traces

\* AnnotatedDrawable._build_fig: the core's traces put on the given axes and
\* taken as self._traces. With no core trace the data is [{}], and a plain
\* dict takes no attribute.
build_fig(a, xaxis, yaxis) ==
    LET data == core_data(a.core)
        placed == [i \in 1..Len(data) |->
                     [data[i] EXCEPT !.xaxis = xaxis, !.yaxis = yaxis]]
    IN  IF data = <<>> THEN [ok |-> FALSE, ad |-> a]
        ELSE [ok |-> TRUE,
              ad |-> [a EXCEPT !.core.traces = placed, !.traces = placed]]

\* if not self.traces: self._build_fig(...)
ensure_traces(a, xaxis, yaxis) ==
    IF a.traces = <<>> THEN build_fig(a, xaxis, yaxis)
    ELSE [ok |-> TRUE, ad |-> a]

Fig(kind, data, layout, a) ==
    [ret |-> Ok([kind |-> kind, data |-> data, layout |-> layout]), ad |-> a]

Failed(a) == [ret |-> Raise("AttributeError"), ad |-> a]

\* AnnotatedDrawable._build_2x2_fig
build_2x2_fig(a0) ==
    LET b == ensure_traces(a0, "x2", "y2")
        a == b.ad
        left == place_track(a.left_track.traces, 1, {}, "", "")
        bottom == place_track(a.bottom_track.traces, 1, left.seen, "x3", "y3")
    IN  IF ~b.ok THEN Failed(a)
        ELSE Fig("2x2", a.traces \o left.traces \o bottom.traces,
                 layout_2x2(track_extent(left.traces, "x"),
                            track_extent(bottom.traces, "y"),
                            a.xrange, a.yrange),
                 [a EXCEPT !.left_track.traces = left.traces,
                           !.bottom_track.traces = bottom.traces])

\* AnnotatedDrawable._build_2x1_fig
build_2x1_fig(a0) ==
    LET b == ensure_traces(a0, "x", "y")
        a == b.ad
        bottom == place_track(a.bottom_track.traces, 1, {}, "x", "y2")
    IN  IF ~b.ok THEN Failed(a)
        ELSE Fig("2x1", a.traces \o bottom.traces,
                 layout_2x1(track_extent(bottom.traces, "y"),
                            a.xrange, a.yrange),
                 [a EXCEPT !.bottom_track.traces = bottom.traces])

\* AnnotatedDrawable._build_1x2_fig
build_1x2_fig(a0) ==
    LET b == ensure_traces(a0, "x2", "y")
        a == b.ad
        left == place_track(a.left_track.traces, 1, {}, "", "y")
    IN  IF ~b.ok THEN Failed(a)
        ELSE Fig("1x2", a.traces \o left.traces,
                 layout_1x2(track_extent(left.traces, "x"),
                            a.xrange, a.yrange),
                 [a EXCEPT !.left_track.traces = left.traces])

\* AnnotatedDrawable.figure
annotated_figure(a) ==
    IF a.bottom_track.present /\ a.left_track.present THEN build_2x2_fig(a)
    ELSE IF a.bottom_track.present THEN build_2x1_fig(a)
    ELSE IF a.left_track.present THEN build_1x2_fig(a)
    ELSE LET b == build_fig(a, "x", "y")
         IN  IF ~b.ok THEN Failed(b.ad)
             ELSE Fig("1x1", b.ad.traces, layout_core, b.ad)

\* AnnotatedDrawable.remove_track
remove_track(a, left_track, bottom_track) ==
    LET a1 == IF left_track THEN [a EXCEPT !.left_track = NoTrack] ELSE a
        a2 == IF bottom_track THEN [a1 EXCEPT !.bottom_track = NoTrack] ELSE a1
    IN  IF left_track \/ bottom_track
        THEN [a2 EXCEPT !.core.traces = <<>>, !.traces = <<>>]
        ELSE a2

InitAnnotated ==
    /\ \E core \in Cores, lt \in LeftTracks, bt \in BottomTracks, r \in Ranges :
         ad = [kind |-> "annotated", core |-> core, traces |-> <<>>,
               left_track |-> lt, bottom_track |-> bt,
               xrange |-> r.x, yrange |-> r.y]
    /\ call = [op |-> "AnnotatedDrawable", left |-> FALSE, bottom |-> FALSE]
    /\ ret = NoRet
    /\ traces = <<>>
    /\ added = <<>>

AnnotatedFigure ==
    /\ LET r == annotated_figure(ad)
       IN  /\ ret' = r.ret
           /\ ad' = r.ad
    /\ call' = [op |-> "figure", left |-> FALSE, bottom |-> FALSE]
    /\ UNCHANGED <<traces, added>>

RemoveTrack ==
    /\ \E l \in BOOLEAN, b \in BOOLEAN :
        /\ ad' = remove_track(ad, l, b)
        /\ call' = [op |-> "remove_track", left |-> l, bottom |-> b]
    /\ ret' = Ok([kind |-> "None"])
    /\ UNCHANGED <<traces, added>>

NextAnnotated == AnnotatedFigure \/ RemoveTrack

SpecAnnotated == InitAnnotated /\ [][NextAnnotated]_vars

\* a figure call on the AnnotatedDrawable has returned a figure of this layout
FigDone(kind) ==
    /\ ad.kind = "annotated" /\ call.op = "figure"
    /\ ret.kind = "ok" /\ ret.value.kind = kind

\* a domain is a normalized range
Normalized(d) == RLe(I(0), d[1]) /\ RLt(d[1], d[2]) /\ RLe(d[2], I(1))

Width(d) == RSub(d[2], d[1])

\* C6: in the two-track layout every axis domain is a normalized range,
\* 0 <= lower < upper <= 1, and along each direction the track's domain and
\* the main plot's domain do not overlap, whatever the track extents.
C6_TwoTrackDomainsNormalized ==
    FigDone("2x2") =>
        LET lay == ret.value.layout
        IN  /\ Normalized(lay.xaxis.domain) /\ Normalized(lay.xaxis2.domain)
            /\ Normalized(lay.xaxis3.domain) /\ Normalized(lay.yaxis.domain)
            /\ Normalized(lay.yaxis2.domain) /\ Normalized(lay.yaxis3.domain)
            /\ RLe(lay.xaxis.domain[2], lay.xaxis2.domain[1])
            /\ RLe(lay.yaxis3.domain[2], lay.yaxis2.domain[1])

\* int(m) + 1 for m the largest of 0 and the coordinates, None left out, that
\* the traces have across the track
ExtentOf(trs, across) ==
    LET vals == {I(0)} \cup
                {c \in UNION {{(IF across = "x" THEN trs[i].x ELSE trs[i].y)[j] :
                                 j \in 1..Len(IF across = "x" THEN trs[i].x
                                              ELSE trs[i].y)} :
                              i \in 1..Len(trs)} : c # NoneC}
        m == CHOOSE v \in vals : \A w \in vals : RLe(w, v)
    IN  RInt(m) + 1

\* C7: in the two-track layout, with L and B the extents of the left and the
\* bottom track, the width of the left track's x domain divided by the height
\* of the bottom track's y domain is L / B, and the track with the smaller
\* extent keeps the base size 0.099.
C7_TrackSizesProportional ==
    FigDone("2x2") =>
        LET lay == ret.value.layout
            L == ExtentOf(ad.left_track.traces, "x")
            B == ExtentOf(ad.bottom_track.traces, "y")
        IN  /\ RDiv(Width(lay.xaxis.domain), Width(lay.yaxis3.domain)) = R(L, B)
            /\ L <= B => Width(lay.xaxis.domain) = R(99, 1000)
            /\ B <= L => Width(lay.yaxis3.domain) = R(99, 1000)

\* C7 witness: a left track five times as high as the bottom track got a
\* domain five times as wide
C7_Witness ==
    /\ FigDone("2x2")
    /\ ExtentOf(ad.left_track.traces, "x") = MaxLevel + 1
    /\ ExtentOf(ad.bottom_track.traces, "y") = 2
    /\ ret.value.layout.xaxis.domain[2]
         = RMul(R(MaxLevel + 1, 2), R(99, 1000))
    /\ ret.value.layout.yaxis3.domain = <<I(0), R(99, 1000)>>

\* a single-track figure: its track domain and main-plot domain along the
\* direction of the split
SingleTrackDone == FigDone("2x1") \/ FigDone("1x2")

SplitTrack ==
    IF FigDone("2x1") THEN ret.value.layout.yaxis2.domain
    ELSE ret.value.layout.xaxis.domain

SplitMain ==
    IF FigDone("2x1") THEN ret.value.layout.yaxis.domain
    ELSE ret.value.layout.xaxis2.domain

\* the track starts at 0, the main plot ends at 1, they do not overlap, and
\* their widths add up to 1 - spacing
SplitBy(spacing) ==
    /\ SplitTrack[1] = I(0)
    /\ SplitMain[2] = I(1)
    /\ RLe(SplitTrack[2], SplitMain[1])
    /\ RAdd(Width(SplitTrack), Width(SplitMain)) = RSub(I(1), spacing)

\* C8 as stated: in a single-track layout (bottom track only, or left track
\* only) the track's domain starts at 0, the main plot's ends at 1, they do
\* not overlap and their widths sum to 1 - 0.01.
C8_SingleTrackSpacing001 ==
    SingleTrackDone => SplitBy(R(1, 100))

\* C8 amended: the same, with a spacing of 0.01 in the left-track layout and
\* of 0.015 in the bottom-track layout.
C8_SingleTrackSpacing ==
    /\ FigDone("1x2") => SplitBy(R(1, 100))
    /\ FigDone("2x1") => SplitBy(R(15, 1000))

\* C8 witness: a bottom-track figure whose domains are 0.015 apart
C8_Witness ==
    /\ FigDone("2x1")
    /\ ret.value.layout.yaxis2.domain = <<I(0), R(197, 2000)>>
    /\ ret.value.layout.yaxis.domain = <<R(227, 2000), I(1)>>

\* C9: in the two-track layout the bottom track's x axis (xaxis3) has the
\* domain and the range of the main plot's x axis (xaxis2), and the left
\* track's y axis (yaxis) those of the main plot's y axis (yaxis2).
C9_TracksAlignedToMainAxes ==
    FigDone("2x2") =>
        LET lay == ret.value.layout
        IN  /\ lay.xaxis3.domain = lay.xaxis2.domain
            /\ lay.xaxis3.range = lay.xaxis2.range
            /\ lay.yaxis.domain = lay.yaxis2.domain
            /\ lay.yaxis.range = lay.yaxis2.range
            /\ lay.xaxis2.range = ad.xrange
            /\ lay.yaxis2.range = ad.yrange

\* C9 witness: tracks of different extents and set ranges, where the shared
\* domains have moved away from the 0.109 the layout starts from
C9_Witness ==
    /\ FigDone("2x2")
    /\ ad.xrange = <<I(0), I(3)>>
    /\ ret.value.layout.xaxis3.range = <<I(0), I(3)>>
    /\ ret.value.layout.yaxis.range = <<I(0), I(5)>>
    /\ ret.value.layout.xaxis3.domain = <<R(208, 1000), I(1)>>
    /\ ret.value.layout.yaxis.domain = <<R(109, 1000), I(1)>>

(***************************************************************************)
(* Arrow called directly, with its own y, height and arrow_head_w          *)
(***************************************************************************)
\* the keyword arguments Shape.__init__ defaults to None
NoKw == [name |-> "None", text |-> "None", legendgroup |-> "None",
         fillcolor |-> "None"]

\* the y, height and arrow_head_w arguments tried: the defaults, and a head
\* as long as the span (0.5) and twice as long (1)
ArrowYs == {I(0), I(2)}
ArrowHeights == {R(1, 4), I(1)}
ArrowHeadWs == {I(0), R(1, 10), R(1, 2), I(1)}

ArrowCalls ==
    [op : {"Arrow"}, coords : SpanLists, y : ArrowYs, height : ArrowHeights,
     arrow_head_w : ArrowHeadWs, reverse : BOOLEAN]

InitArrow ==
    /\ call \in ArrowCalls
    /\ ret = NoRet
    /\ traces = <<>>
    /\ added = <<>>
    /\ ad = NoDrawable

CallArrow ==
    /\ call.op = "Arrow"
    /\ ret = NoRet
    /\ ret' = Ok(Arrow(call.coords, call.y, call.height, call.arrow_head_w,
                       call.reverse, NoKw))
    /\ UNCHANGED <<call, traces, added, ad>>

NextArrow == CallArrow

SpecArrow == InitArrow /\ [][NextArrow]_vars

\* the last n entries of s
LastN(s, n) == SubSeq(s, Len(s) - n + 1, Len(s))

\* the vertices (x, y) of the head of an arrow: the last 8 points of the shape
HeadOf(shape) ==
    LET xs == LastN(shape.x, 8)
        ys == LastN(shape.y, 8)
    IN  [i \in 1..8 |-> <<xs[i], ys[i]>>]

SetOf(s) == {s[i] : i \in 1..Len(s)}

\* the head of the reversed arrow is the mirror image, about the vertical
\* line through the middle of the final span, of the head built without
\* reverse; lo and hi are the ends of the final span
MirroredHead(lo, hi) ==
    LET rev == HeadOf(ret.value)
        fwd == HeadOf(Arrow(call.coords, call.y, call.height,
                            call.arrow_head_w, FALSE, NoKw))
        mirror == [i \in 1..8 |->
                     <<RSub(RAdd(lo, hi), fwd[i][1]), fwd[i][2]>>]
        tip == <<lo, RAdd(call.y, Half(call.height))>>
    IN  /\ rev = mirror \/ rev = flip(mirror)
        /\ tip \in SetOf(rev)
        /\ \A v \in SetOf(rev) : RLe(lo, v[1]) /\ RLe(v[1], hi)
        /\ \E v \in SetOf(rev) : v[1] = hi
        /\ {v[2] : v \in SetOf(rev)} = {v[2] : v \in SetOf(fwd)}
        /\ rev[1] = rev[8]

\* C11 as stated: for every final span, y, height and arrow_head_w, the head built with
\* reverse=True is the head built with reverse=False mirrored about the
\* vertical line through the span's midpoint ((x, y) -> (min + max - x, y)):
\* its tip is at the span's smaller coordinate at height y + height/2, its
\* horizontal extent is [min, max], its vertical extent is that of the
\* forward head, and the polygon is closed.
C11_ReverseMirrorsHead ==
    (call.op = "Arrow" /\ ret # NoRet /\ call.reverse) =>
        LET last == call.coords[Len(call.coords)]
        IN  MirroredHead(span_x(last), RAdd(span_x(last), span_width(last)))

\* C11 amended: the same for every arrow_head_w from 0 to 0.5, where the head
\* is no longer than the final span.
C11_ReverseMirrorsHeadWithinSpan ==
    (call.op = "Arrow" /\ ret # NoRet /\ call.reverse
        /\ RLe(I(0), call.arrow_head_w) /\ RLe(call.arrow_head_w, R(1, 2))) =>
        LET last == call.coords[Len(call.coords)]
        IN  MirroredHead(span_x(last), RAdd(span_x(last), span_width(last)))

\* C11 witness: the reversed arrow on the span (3, 1) has its tip at 1
C11_Witness ==
    /\ call.op = "Arrow" /\ ret # NoRet /\ call.reverse
    /\ call.coords = <<<<3, 1>>>> /\ call.arrow_head_w = R(1, 10)
    /\ call.y = I(0) /\ call.height = R(1, 4)
    /\ ret.value.x = <<I(3), I(3), R(7, 5), R(7, 5), I(1), R(7, 5), R(7, 5), I(3)>>
    /\ ret.value.y[5] = R(1, 8)

\* make_shape was called with a type name and at least one span
NamedShapeDone ==
    /\ call.op = "make_shape" /\ ret # NoRet
    /\ ~call.annot /\ ~call.coords.none /\ call.coords.spans # <<>>

\* the type names by the shape the claim gives them, in any spelling
ArrowNames == {"cds", "CDS", "exon", "transcript", "gene", "Gene"}
PointNames == {"snp", "SNV"}
DiamondNames == {"variation"}

\* C12: make_shape branches on the type name, case-insensitively: cds, exon,
\* transcript and gene give an Arrow that is reversed exactly when the first
\* span's start is greater than the last span's end; snp and snv a Point at
\* x = min(first start, last end), y = 1; variation a Diamond; repeat and any
\* other type a Rectangle; and no shape but Arrow is handed the reverse flag
\* (which the other constructors would reject).
C12_ShapeByFeatureType ==
    NamedShapeDone =>
        LET t == call.type_
            spans == call.coords.spans
            first == spans[1]
            last == spans[Len(spans)]
            rev == first[1] > last[2]
            arrow == Arrow(spans, default_y, default_height,
                           default_arrow_head_w, rev, NoKw)
            rect == Rectangle(spans, default_y, default_height, NoKw)
            diam == Diamond(spans, default_y, default_height, NoKw)
            xmin == IF last[2] < first[1] THEN last[2] ELSE first[1]
            is(klass, xs, ys) ==
                /\ ret.value.klass = klass
                /\ ret.value.x = xs /\ ret.value.y = ys
        IN  /\ ret.kind = "ok"
            /\ ret.value.name = t /\ ret.value.legendgroup = t
            /\ IF t \in ArrowNames THEN is("Arrow", arrow.x, arrow.y)
               ELSE IF t \in PointNames THEN is("Point", <<I(xmin)>>, <<I(1)>>)
               ELSE IF t \in DiamondNames THEN is("Diamond", diam.x, diam.y)
               ELSE is("Rectangle", rect.x, rect.y)

\* C12 witness: "CDS" on the span (3, 1) gave a reversed Arrow, tip at 1
C12_Witness ==
    /\ NamedShapeDone /\ ret.kind = "ok"
    /\ call.type_ = "CDS" /\ call.coords.spans = <<<<3, 1>>>>
    /\ ret.value.klass = "Arrow"
    /\ ret.value.x = <<I(3), I(3), R(7, 5), R(7, 5), I(1), R(7, 5), R(7, 5), I(3)>>

\* the axes the core traces belong on, for the tracks the drawable has
CoreAxes ==
    [xaxis |-> IF ad.left_track.present THEN "x2" ELSE "x",
     yaxis |-> IF ad.left_track.present /\ ad.bottom_track.present
               THEN "y2" ELSE "y"]

\* the figure just built holds the traces of the main plot, on the axes of
\* the layout of the remaining tracks, followed by the traces of the tracks
\* that are still there and no others
MainPlotKept ==
    call.op = "figure" =>
        /\ ret.kind = "ok"
        /\ ret.value.data =
             [i \in 1..Len(CoreTraces) |->
                [CoreTraces[i] EXCEPT !.xaxis = CoreAxes.xaxis,
                                      !.yaxis = CoreAxes.yaxis]]
             \o ad.left_track.traces \o ad.bottom_track.traces

\* C13: over any sequence of figure and remove_track calls, for a core that
\* makes its traces on demand and for one that was given them, every figure
\* holds the core traces on the axes of the remaining layout (x2/y2 with both
\* tracks, x/y with the bottom track only, x2/y with the left track only, x/y
\* with none) and no trace of a removed track, and remove_track with both
\* flags false changes nothing.
C13_RemoveTrackKeepsMainPlot ==
    [][/\ (call'.op = "remove_track" /\ ~call'.left /\ ~call'.bottom)
            => ad' = ad
       /\ MainPlotKept']_vars

\* the track traces of the figure just built: its data after the core traces
TrackData == SubSeq(ret.value.data, Len(ad.traces) + 1, Len(ret.value.data))

\* C14: after any sequence of figure and remove_track calls, among the track
\* traces of the figure (all of which started with showlegend true) the first
\* trace of each legendgroup has showlegend true and every later trace of
\* the group has showlegend false.
C14_OneLegendEntryPerGroup ==
    (ad.kind = "annotated" /\ call.op = "figure" /\ ret.kind = "ok") =>
        \A i \in 1..Len(TrackData) :
            TrackData[i].showlegend
                = (\A j \in 1..(i - 1) :
                      TrackData[j].legendgroup # TrackData[i].legendgroup)

====
